---- MODULE Spec2Model ----
(***************************************************************************)
(* A model of lowher-case.py: lowher(text) masks code spans with           *)
(* placeholders (mark_code_blocks), lowercases the masked text token by    *)
(* token (process_text) and puts the code spans back (unmark_code_blocks). *)
(*                                                                         *)
(* A text is a sequence of symbols.  Each symbol is the character, or the  *)
(* fixed run of characters, that its string spells (BACKTICK names the     *)
(* backtick); the text it stands for is the concatenation of its symbols.  *)
(* The runs are "__", "CODE_BLOCK_" and "code_block_", the parts of        *)
(* f"__CODE_BLOCK_{i}__" and of its lowercased form.  No symbol is a       *)
(* prefix of another, a backtick occurs only as the symbol BACKTICK, the   *)
(* letters of CODE_BLOCK only in the symbol "CODE_BLOCK_", and an          *)
(* underscore only in the runs, so a code span (it begins and ends with a  *)
(* backtick) or a placeholder occurs in the character string exactly       *)
(* where its symbols occur in the symbol sequence: str.replace and the     *)
(* regular expression see the same matches.  The tagger's tokens are cut   *)
(* at symbol boundaries.                                                   *)
(***************************************************************************)
EXTENDS Integers, Sequences, FiniteSets, TLC

\* ------------------------------------------------------------- bounds

\* Spec: an input is at most MaxPieces pieces.
MaxPieces == 4
\* SpecMask: an input is at most MaxMaskPieces pieces.
MaxMaskPieces == 5
\* SpecTwice: an input is at most MaxLen symbols.
MaxLen == 4
\* A token's text is at most MaxTokenLen symbols.
MaxTokenLen == 5

\* ------------------------------------------------------------ strings

\* The backtick character (a TLA+ string cannot hold it).
BACKTICK == "BACKTICK"
NEWLINE == "\n"
SPACE == " "

UpperSymbols == {"A", "CODE_BLOCK_"}
LowerSymbols == {"a", "code_block_"}
DigitSymbols == <<"0", "1", "2", "3", "4", "5", "6", "7", "8", "9">>

\* str.lower() of one symbol.
LowerSymbol(c) ==
    CASE c = "A" -> "a"
      [] c = "CODE_BLOCK_" -> "code_block_"
      [] OTHER -> c

\* str.lower()
Lower(s) == [k \in 1..Len(s) |-> LowerSymbol(s[k])]

\* str.isupper(): at least one cased character, and no lowercase one.
IsUpper(s) ==
    /\ \E k \in 1..Len(s) : s[k] \in UpperSymbols
    /\ \A k \in 1..Len(s) : s[k] \notin LowerSymbols

\* Whether sub occurs in s at index p (1-based).
OccursAt(s, sub, p) ==
    /\ p >= 1
    /\ p + Len(sub) - 1 <= Len(s)
    /\ \A k \in 1..Len(sub) : s[p + k - 1] = sub[k]

\* str.find from index p on: the leftmost index >= p where sub occurs, 0 if none.
FindFrom(s, sub, p) ==
    LET hits == {q \in p..(Len(s) - Len(sub) + 1) : OccursAt(s, sub, q)}
    IN IF hits = {} THEN 0 ELSE CHOOSE q \in hits : \A r \in hits : q <= r

RECURSIVE ReplaceFrom(_, _, _, _)
ReplaceFrom(s, old, new, p) ==
    LET q == FindFrom(s, old, p)
    IN IF q = 0
       THEN SubSeq(s, p, Len(s))
       ELSE SubSeq(s, p, q - 1) \o new \o ReplaceFrom(s, old, new, q + Len(old))

\* str.replace(old, new) with a non-empty old: every occurrence, left to right,
\* without overlap.
Replace(s, old, new) == ReplaceFrom(s, old, new, 1)

\* str(i) for i >= 0, as digit symbols.
RECURSIVE Str(_)
Str(n) == IF n < 10 THEN <<DigitSymbols[n + 1]>>
          ELSE Str(n \div 10) \o <<DigitSymbols[(n % 10) + 1]>>

\* ------------------------------------------------- CODE_BLOCK_PATTERN

FENCE == <<BACKTICK, BACKTICK, BACKTICK>>

\* The match of CODE_BLOCK_PATTERN that starts at index p, as <<first, last>>,
\* or <<0, 0>>.  The first alternative (three backticks, [\s\S]*?, three
\* backticks) ends at the nearest closing fence; when it fails, the second
\* (a backtick, [^backtick]*, a backtick) ends at the next backtick.
MatchAt(s, p) ==
    LET close == IF OccursAt(s, FENCE, p) THEN FindFrom(s, FENCE, p + 3) ELSE 0
        next == IF p <= Len(s) /\ s[p] = BACKTICK
                THEN FindFrom(s, <<BACKTICK>>, p + 1) ELSE 0
    IN IF close # 0 THEN <<p, close + 2>>
       ELSE IF next # 0 THEN <<p, next>>
       ELSE <<0, 0>>

\* The matches of CODE_BLOCK_PATTERN in s from index p on, left to right,
\* without overlap.
RECURSIVE MatchesFrom(_, _)
MatchesFrom(s, p) ==
    IF p > Len(s) THEN <<>>
    ELSE LET m == MatchAt(s, p)
         IN IF m = <<0, 0>> THEN MatchesFrom(s, p + 1)
            ELSE <<m>> \o MatchesFrom(s, m[2] + 1)

\* CODE_BLOCK_PATTERN.findall(text): the text of every match.
FindAll(s) ==
    LET ms == MatchesFrom(s, 1)
    IN [k \in 1..Len(ms) |-> SubSeq(s, ms[k][1], ms[k][2])]

\* f"__CODE_BLOCK_{i}__"
Placeholder(n) == <<"__", "CODE_BLOCK_">> \o Str(n) \o <<"__">>

\* [f"__CODE_BLOCK_{i}__" for i in range(len(code_blocks))]
Placeholders(blocks) == [k \in 1..Len(blocks) |-> Placeholder(k - 1)]

\* ------------------------------------------------------------- inputs

\* All concatenations of at most n of the pieces.
RECURSIVE Concats(_, _)
Concats(pieces, n) ==
    IF n = 0 THEN {<<>>}
    ELSE LET shorter == Concats(pieces, n - 1)
         IN shorter \cup {s \o p : s \in shorter, p \in pieces}

\* Spec's inputs: words, spaces, backticks and fences.
Pieces ==
    {<<"a">>, <<"A">>, <<SPACE>>, <<NEWLINE>>, <<BACKTICK>>, FENCE}

\* SpecTwice's inputs: every text of these symbols.
Symbols ==
    {<<"a">>, <<"A">>, <<SPACE>>, <<NEWLINE>>, <<BACKTICK>>, <<"__">>}

\* SpecMask's inputs: runs of backticks, a letter, a line break and the parts
\* of a placeholder.
MaskPieces ==
    {<<BACKTICK>>, <<BACKTICK, BACKTICK>>, FENCE, <<"a">>, <<NEWLINE>>,
     <<"__">>, <<"CODE_BLOCK_">>, <<"0">>, <<"1">>}

\* -------------------------------------------------------------- state

VARIABLES
    input,         \* lowher's argument
    text,          \* the text variable of the function that is running
    code_blocks,   \* mark_code_blocks: findall's result
    placeholders,  \* mark_code_blocks: one placeholder per code block
    i,             \* the index of the running for loop over code_blocks
    pos,           \* process_text: the symbols of text the tokens so far cover
    token,         \* process_text: the token of the running iteration
    output,        \* process_text: the StringIO buffer
    kept,          \* whether this call's process_text took line 33 for some token
    pc,            \* call, mark, process, unmark, done
    first          \* SpecTwice: what the first of the two calls returned

vars == <<input, text, code_blocks, placeholders, i, pos, token, output, kept,
          pc, first>>

\* The entity labels a token may carry: none, the three of line 32, and LOC,
\* which stands for every label of the tagger that line 32 does not list.
EntTypes == {"", "PERSON", "ORG", "GPE", "LOC"}

NoToken == [text |-> <<>>, whitespace_ |-> <<>>, ent_type_ |-> ""]
NoCall == [returned |-> FALSE, argument |-> <<>>, result |-> <<>>,
           code_blocks |-> <<>>, kept |-> FALSE]

InitWith(inputs) ==
    /\ input \in inputs
    /\ text = input
    /\ code_blocks = <<>>
    /\ placeholders = <<>>
    /\ i = 0
    /\ pos = 0
    /\ token = NoToken
    /\ output = <<>>
    /\ kept = FALSE
    /\ pc = "call"
    /\ first = NoCall

Init == InitWith(Concats(Pieces, MaxPieces))
InitTwice == InitWith(Concats(Symbols, MaxLen))
InitMask == InitWith(Concats(MaskPieces, MaxMaskPieces))

\* --------------------------------------------------- mark_code_blocks

\* Lines 14-15: the code blocks and their placeholders.
MarkFind ==
    /\ pc = "call"
    /\ code_blocks' = FindAll(text)
    /\ placeholders' = Placeholders(FindAll(text))
    /\ i' = 0
    /\ pc' = "mark"
    /\ UNCHANGED <<input, text, pos, token, output, kept, first>>

\* Line 17, one iteration.
MarkStep ==
    /\ pc = "mark"
    /\ i < Len(code_blocks)
    /\ text' = Replace(text, code_blocks[i + 1], placeholders[i + 1])
    /\ i' = i + 1
    /\ UNCHANGED <<input, code_blocks, placeholders, pos, token, output, kept,
                   pc, first>>

\* Line 18 and lowher's line 42: the masked text goes to process_text, whose
\* tagger reads it (line 28) and whose buffer is empty (line 29).
MarkReturn ==
    /\ pc = "mark"
    /\ i = Len(code_blocks)
    /\ pos' = 0
    /\ output' = <<>>
    /\ pc' = "process"
    /\ UNCHANGED <<input, text, code_blocks, placeholders, i, token, kept, first>>

\* ------------------------------------------------------- process_text

\* Line 32.
Protected(tok) ==
    tok.ent_type_ \in {"PERSON", "ORG", "GPE"} \/ IsUpper(tok.text)

\* Line 35 without the token's whitespace: token.text.lower() alone.
WrittenWithoutWhitespace(tok) ==
    IF Protected(tok)
    THEN tok.text \o tok.whitespace_
    ELSE Lower(tok.text)

\* Line 32's condition negated: the protected tokens are the lowercased ones.
WrittenNegated(tok) ==
    IF ~Protected(tok)
    THEN tok.text \o tok.whitespace_
    ELSE Lower(tok.text) \o tok.whitespace_

\* Lines 32-35: what the iteration writes for the token.
Written(tok) ==
    IF Protected(tok)
    THEN tok.text \o tok.whitespace_
    ELSE Lower(tok.text) \o tok.whitespace_

\* The tokens nlp may give next: a non-empty text, the label the tagger gives
\* it, and as whitespace_ the space that follows the text, if the tokenizer
\* attaches it (else the space starts the next token).
NextTokens ==
    {[text |-> SubSeq(text, pos + 1, pos + n), whitespace_ |-> ws, ent_type_ |-> e] :
        n \in {m \in 1..MaxTokenLen : pos + m <= Len(text)},
        ws \in {<<>>, <<SPACE>>},
        e \in EntTypes}

\* Lines 31-35, one iteration.
ProcessToken ==
    /\ pc = "process"
    /\ pos < Len(text)
    /\ \E tok \in NextTokens :
        /\ \/ tok.whitespace_ = <<>>
           \/ OccursAt(text, <<SPACE>>, pos + Len(tok.text) + 1)
        /\ token' = tok
        /\ pos' = pos + Len(tok.text) + Len(tok.whitespace_)
        /\ output' = output \o Written(tok)
        /\ kept' = (kept \/ Protected(tok))
    /\ UNCHANGED <<input, text, code_blocks, placeholders, i, pc, first>>

\* Line 37 and lowher's line 43: the buffer goes to unmark_code_blocks.
ProcessReturn ==
    /\ pc = "process"
    /\ pos = Len(text)
    /\ text' = output
    /\ token' = NoToken
    /\ output' = <<>>
    /\ pos' = 0
    /\ i' = 0
    /\ pc' = "unmark"
    /\ UNCHANGED <<input, code_blocks, placeholders, kept, first>>

\* ------------------------------------------------- unmark_code_blocks

\* Line 23, one iteration.
UnmarkStep ==
    /\ pc = "unmark"
    /\ i < Len(placeholders)
    /\ text' = Replace(text, placeholders[i + 1], code_blocks[i + 1])
    /\ i' = i + 1
    /\ UNCHANGED <<input, code_blocks, placeholders, pos, token, output, kept,
                   pc, first>>

\* Line 24 and lowher's line 44: text is the final text.
UnmarkReturn ==
    /\ pc = "unmark"
    /\ i = Len(placeholders)
    /\ pc' = "done"
    /\ UNCHANGED <<input, text, code_blocks, placeholders, i, pos, token, output,
                   kept, first>>

\* ------------------------------------------------------------ callers

\* lowher(lowher(x)): the first call's result is the second call's argument.
SecondCall ==
    /\ pc = "done"
    /\ ~first.returned
    /\ first' = [returned |-> TRUE, argument |-> input, result |-> text,
                 code_blocks |-> code_blocks, kept |-> kept]
    /\ input' = text
    /\ code_blocks' = <<>>
    /\ placeholders' = <<>>
    /\ i' = 0
    /\ kept' = FALSE
    /\ pc' = "call"
    /\ UNCHANGED <<text, pos, token, output>>

\* unmark_code_blocks(*mark_code_blocks(text)): the masked text goes to
\* unmark_code_blocks as it is.
MarkThenUnmark ==
    /\ pc = "mark"
    /\ i = Len(code_blocks)
    /\ i' = 0
    /\ pc' = "unmark"
    /\ UNCHANGED <<input, text, code_blocks, placeholders, pos, token, output,
                   kept, first>>

Lowher ==
    \/ MarkFind
    \/ MarkStep
    \/ MarkReturn
    \/ ProcessToken
    \/ ProcessReturn
    \/ UnmarkStep
    \/ UnmarkReturn

Next == Lowher

NextTwice == Lowher \/ SecondCall

NextMask == MarkFind \/ MarkStep \/ MarkThenUnmark \/ UnmarkStep \/ UnmarkReturn

\* lowher(text)
Spec == Init /\ [][Next]_vars

\* lowher(lowher(text))
SpecTwice == InitTwice /\ [][NextTwice]_vars

\* unmark_code_blocks(*mark_code_blocks(text))
SpecMask == InitMask /\ [][NextMask]_vars

\* --------------------------------------------------------- properties

\* A match of CODE_BLOCK_PATTERN's first alternative: a fenced block.
IsFenced(block) == Len(block) >= 6 /\ OccursAt(block, FENCE, 1)

Contains(s, c) == \E k \in 1..Len(s) : s[k] = c

\* The symbols a..b of s, as far as s has them.
Slice(s, a, b) == SubSeq(s, a, IF b <= Len(s) THEN b ELSE Len(s))

\* Whether s holds a placeholder, __CODE_BLOCK_<i>__, or with anyCase one in
\* lowercase letters.
HoldsPlaceholder(s, anyCase) ==
    \E p \in 1..Len(s) : \E q \in (p + 3)..Len(s) :
        /\ s[p] = "__"
        /\ s[p + 1] = "CODE_BLOCK_" \/ (anyCase /\ s[p + 1] = "code_block_")
        /\ \A k \in (p + 2)..(q - 1) : \E d \in 1..10 : s[k] = DigitSymbols[d]
        /\ s[q] = "__"

\* C1: when lowher returns, every fenced block that the pattern finds in the
\* input stands in the final text unmodified, at the offsets it has in the
\* input, whatever tokens and labels the tagger gave.
FencedBlocksSurvive ==
    pc = "done" =>
        \A m \in {MatchesFrom(input, 1)[k] : k \in 1..Len(MatchesFrom(input, 1))} :
            IsFenced(SubSeq(input, m[1], m[2]))
                => Slice(text, m[1], m[2]) = SubSeq(input, m[1], m[2])

\* C2: when lowher returns for an input that holds no placeholder, the final
\* text holds no placeholder either, in uppercase or in lowercase letters.
NoPlaceholderLeaks ==
    (pc = "done" /\ ~HoldsPlaceholder(input, FALSE))
        => ~HoldsPlaceholder(text, TRUE)

\* C3: a token whose text is fully uppercase, or whose label is PERSON, ORG,
\* GPE or LOC, is written to the buffer as it is, followed by its whitespace.
ProtectedTokensKept ==
    (/\ pc = "process"
     /\ token # NoToken
     /\ \/ IsUpper(token.text)
        \/ token.ent_type_ \in {"PERSON", "ORG", "GPE", "LOC"})
        => LET w == token.text \o token.whitespace_
           IN SubSeq(output, Len(output) - Len(w) + 1, Len(output)) = w

\* C4: when lowher returns for an input without a backtick none of whose
\* tokens was labelled PERSON, ORG or GPE or was fully uppercase (no token
\* took line 33), the final text is the lowercased input: whitespace stays,
\* and a lowercase input comes back as it is.
OrdinaryWordsLowercased ==
    (pc = "done" /\ ~Contains(input, BACKTICK) /\ ~kept)
        => /\ text = Lower(input)
           /\ Lower(input) = input => text = input

\* C4's case: a mixed-case input with a space and no backtick, none of whose
\* tokens was protected, has been lowercased.
OrdinaryWordsWitness ==
    /\ pc = "done"
    /\ ~Contains(input, BACKTICK)
    /\ ~kept
    /\ Contains(input, "A") /\ Contains(input, "a") /\ Contains(input, SPACE)
    /\ text = Lower(input)

\* C5: when lowher(lowher(x)) returns for an x in which the first call found
\* no code span and protected no token, it returns what the first call
\* returned, whatever tokens and labels the tagger gave to the second call.
LowherIdempotent ==
    (/\ pc = "done"
     /\ first.returned
     /\ first.code_blocks = <<>>
     /\ ~first.kept)
        => text = first.result

\* C5's case: the first call lowercased an uppercase letter of x, and the
\* second call's tagger protected a token.
LowherIdempotentWitness ==
    /\ pc = "done"
    /\ first.returned
    /\ first.code_blocks = <<>>
    /\ ~first.kept
    /\ first.result # first.argument
    /\ kept
    /\ text = first.result

\* str.replace(old, new, 1): the first occurrence only.
ReplaceFirst(s, old, new) ==
    LET q == FindFrom(s, old, 1)
    IN IF q = 0 THEN s
       ELSE SubSeq(s, 1, q - 1) \o new \o SubSeq(s, q + Len(old), Len(s))

\* C6: an iteration of mark_code_blocks replaces only the first occurrence
\* of its code block in the text by the placeholder.
FirstOccurrenceMasking ==
    [][(pc = "mark" /\ pc' = "mark" /\ i' = i + 1)
          => text' = ReplaceFirst(text, code_blocks[i + 1], placeholders[i + 1])]_vars

\* C7: lowercasing a placeholder of mark_code_blocks leaves it as it is.
PlaceholdersCaseStable ==
    \A k \in 1..Len(placeholders) : Lower(placeholders[k]) = placeholders[k]

\* C8: a code block that the pattern's inline alternative matched holds no
\* line break.
InlineSpansOnOneLine ==
    \A k \in 1..Len(code_blocks) :
        ~IsFenced(code_blocks[k]) => ~Contains(code_blocks[k], NEWLINE)

\* The permutations of 1..n, as sequences.
Perms(n) == {f \in [1..n -> 1..n] : \A a, b \in 1..n : f[a] = f[b] => a = b}

\* unmark_code_blocks with its pairs taken in the given order.
RECURSIVE UnmarkIn(_, _, _)
UnmarkIn(order, k, s) ==
    IF k > Len(order) THEN s
    ELSE UnmarkIn(order, k + 1,
                  Replace(s, placeholders[order[k]], code_blocks[order[k]]))

\* C9: substituting the pairs of unmark_code_blocks in any order gives the
\* text that substituting them in the order of their creation gives.
RestorationOrderIndependent ==
    (pc = "unmark" /\ i = 0) =>
        \A order \in Perms(Len(placeholders)) :
            UnmarkIn(order, 1, text)
                = UnmarkIn([k \in 1..Len(placeholders) |-> k], 1, text)

\* C10: unmark_code_blocks applied to what mark_code_blocks returned for an
\* input that holds no placeholder gives the input back.
MaskUnmaskRoundTrip ==
    (pc = "done" /\ ~HoldsPlaceholder(input, FALSE)) => text = input

====
